---- MODULE Spec2Model ----
(***************************************************************************)
(* A model of the bx bencode decoder (95th/bx).                            *)
(*                                                                         *)
(* The decoder is a cursor (buf, pos) over an immutable byte buffer.  The  *)
(* four Decoder primitives, the two accessors and the built-in adapters    *)
(* are operators that take the buffer and the cursor offset and return an  *)
(* outcome record carrying the cursor offset they leave behind.  The       *)
(* actions are the calls a caller can make: parse::<T>() on a fresh        *)
(* decoder, and the Decoder / List / Dict methods on a live decoder.       *)
(*                                                                         *)
(* Bytes are their ASCII codes.  64-bit quantities (i64 values, usize      *)
(* lengths) are kept at full width as sequences of decimal digits, most    *)
(* significant first, without leading zeros (zero is the empty sequence),  *)
(* so that the overflow limits are the real ones.                          *)
(***************************************************************************)
EXTENDS Integers, Sequences, FiniteSets, TLC

VARIABLES
    buf,              \* BenDecoder.buf: the input buffer, a sequence of bytes
    pos,              \* BenDecoder.pos: the cursor offset, 0-based
    overflow_checks,  \* build profile: TRUE = overflow checks on (debug)
    op,               \* the last call made on the decoder ("new" before any)
    arg,              \* the target type / visitor type of the last call
    pre,              \* the cursor offset when the last call was made
    res               \* the outcome of the last call

vars == <<buf, pos, overflow_checks, op, arg, pre, res>>

----------------------------------------------------------------------------
(* Bounds of the model.                                                    *)

MaxFuzzLen == 3
MaxElems   == 3
MaxArity   == 3
MaxEntries == 2
MaxNested  == 2
MaxInner   == 1

----------------------------------------------------------------------------
(* Byte literals of the grammar.                                           *)

CH_MINUS == 45
CH_0     == 48
CH_1     == 49
CH_2     == 50
CH_9     == 57
CH_COLON == 58
CH_a     == 97
CH_b     == 98
CH_d     == 100
CH_e     == 101
CH_i     == 105
CH_l     == 108

IsDigit(c) == c >= CH_0 /\ c <= CH_9

----------------------------------------------------------------------------
(* Full-width naturals as decimal digit sequences.                         *)

Front(s) == SubSeq(s, 1, Len(s) - 1)

RECURSIVE AddDec(_, _)
\* ds + n for a digit sequence ds and a small natural n: the recursion
\* follows the carry and stops where it is absorbed.
AddDec(ds, n) ==
    IF n = 0 THEN ds
    ELSE IF ds = <<>> THEN Append(AddDec(<<>>, n \div 10), n % 10)
    ELSE Append(AddDec(Front(ds), (ds[Len(ds)] + n) \div 10), (ds[Len(ds)] + n) % 10)

\* ds * 10.
Mul10Dec(ds) == IF ds = <<>> THEN <<>> ELSE Append(ds, 0)

\* a <= b, digit by digit, for digit sequences of the same length.
LexLe(a, b) ==
    \/ a = b
    \/ \E k \in 1..Len(a) : a[k] < b[k] /\ \A j \in 1..(k - 1) : a[j] = b[j]

\* a <= b for normalised digit sequences.
LeDec(a, b) == Len(a) < Len(b) \/ (Len(a) = Len(b) /\ LexLe(a, b))

NatToDec(n) == AddDec(<<>>, n)

RECURSIVE DecToNat(_)
\* Only used on values known to be at most the buffer length.
DecToNat(ds) == IF ds = <<>> THEN 0 ELSE 10 * DecToNat(Front(ds)) + ds[Len(ds)]

\* i64::MAX = 2^63 - 1 and usize::MAX = 2^64 - 1 (64-bit target).
I64_MAX   == <<9,2,2,3,3,7,2,0,3,6,8,5,4,7,7,5,8,0,7>>
USIZE_MAX == <<1,8,4,4,6,7,4,4,0,7,3,7,0,9,5,5,1,6,1,5>>

Some(v) == <<"some", v>>
None    == <<"none">>

\* checked_mul(10) / checked_add(digit) on a non-negative value with limit max.
checked_mul10(val, max) ==
    LET n == Mul10Dec(val) IN IF LeDec(n, max) THEN Some(n) ELSE None

checked_add(val, digit, max) ==
    LET n == AddDec(val, digit) IN IF LeDec(n, max) THEN Some(n) ELSE None

----------------------------------------------------------------------------
(* Outcomes: Result<T, Error> plus the cursor offset left behind.          *)
(* st is "Ok", one of the six Error variants, or "panic" (the process      *)
(* aborted).  site names the place in the code that produced an error.     *)

NoVal == <<"unit">>

Ok(v, p) ==
    [st |-> "Ok", val |-> v, reason |-> "", epos |-> -1, expected |-> -1,
     actual |-> -1, site |-> "", pos |-> p]

Err(kind, site, p) ==
    [st |-> kind, val |-> NoVal, reason |-> "", epos |-> -1, expected |-> -1,
     actual |-> -1, site |-> site, pos |-> p]

ErrEof(site, p) == Err("Eof", site, p)

ErrType(why, site, p) == [Err("Type", site, p) EXCEPT !.reason = why]

ErrLength(e, a, site, p) ==
    [Err("Length", site, p) EXCEPT !.expected = e, !.actual = a]

ErrParse(why, at, site, p) ==
    [Err("Parse", site, p) EXCEPT !.reason = why, !.epos = at]

ErrUnexpected(at, site, p) == [Err("Unexpected", site, p) EXCEPT !.epos = at]

ErrOverflow(at, site, p) == [Err("Overflow", site, p) EXCEPT !.epos = at]

Panic(site, p) == Err("panic", site, p)

IsOk(r) == r.st = "Ok"

\* Decoded values.
VInt(neg, mag) == <<"int", neg, mag>>
VBytes(s)      == <<"bytes", s>>
VSeq(s)        == <<"seq", s>>
VSet(s)        == <<"set", s>>
VMap(m)        == <<"map", m>>
VFoo(id, b)    == <<"Foo", id, b>>

----------------------------------------------------------------------------
(* The cursor primitives of BenDecoder.                                    *)

\* The ? operator: an error returns from the enclosing function at once,
\* a success continues with K.
Try(r, K(_)) == IF IsOk(r) THEN K(r) ELSE r

\* buf.get(pos).copied().ok_or_else(|| Error::Eof)
peek_char(b, p) ==
    IF p < Len(b) THEN Ok(b[p + 1], p) ELSE ErrEof("peek_char", p)

next_char(b, p) == Try(peek_char(b, p), LAMBDA c : Ok(c.val, p + 1))

\* val.checked_mul(10).and_then(|n| n.checked_add(digit))
checked_mul10_add(val, digit, max) ==
    LET m == checked_mul10(val, max)
    IN  IF m = None THEN None ELSE checked_add(m[2], digit, max)

RECURSIVE parse_usize_loop(_, _, _, _)
\* loop { match self.next_char()? { .. } }: one arm per outcome of the read
\* at offset p; next_char has moved the cursor to p + 1 in every arm but Eof.
parse_usize_loop(b, p, stop_char, val) ==
    CASE p >= Len(b) -> ErrEof("peek_char", p)
      [] p < Len(b) /\ IsDigit(b[p + 1])
           /\ checked_mul10_add(val, b[p + 1] - CH_0, USIZE_MAX) = None
         -> ErrOverflow(p + 1, "parse_usize", p + 1)
      [] p < Len(b) /\ IsDigit(b[p + 1])
           /\ checked_mul10_add(val, b[p + 1] - CH_0, USIZE_MAX) # None
         -> parse_usize_loop(b, p + 1, stop_char,
                             checked_mul10_add(val, b[p + 1] - CH_0, USIZE_MAX)[2])
      [] p < Len(b) /\ b[p + 1] = stop_char -> Ok(val, p + 1)
      [] OTHER -> ErrUnexpected(p + 1, "parse_usize", p + 1)

parse_usize(b, p, stop_char) ==
    Try(peek_char(b, p), LAMBDA c :
        IF ~IsDigit(c.val)
        THEN ErrUnexpected(p, "parse_usize.first", p)
        ELSE parse_usize_loop(b, p, stop_char, <<>>))

\* val *= -1 on a non-negative val.
Negate(mag, negative) == VInt(negative /\ mag # <<>>, mag)

RECURSIVE parse_i64_loop(_, _, _, _, _)
\* loop { match self.next_char()? { .. } }, as in parse_usize.
parse_i64_loop(b, p, stop_char, negative, val) ==
    CASE p >= Len(b) -> ErrEof("peek_char", p)
      [] p < Len(b) /\ IsDigit(b[p + 1])
           /\ checked_mul10_add(val, b[p + 1] - CH_0, I64_MAX) = None
         -> ErrOverflow(p + 1, "parse_i64", p + 1)
      [] p < Len(b) /\ IsDigit(b[p + 1])
           /\ checked_mul10_add(val, b[p + 1] - CH_0, I64_MAX) # None
         -> parse_i64_loop(b, p + 1, stop_char, negative,
                           checked_mul10_add(val, b[p + 1] - CH_0, I64_MAX)[2])
      [] p < Len(b) /\ b[p + 1] = stop_char -> Ok(Negate(val, negative), p + 1)
      [] OTHER -> ErrUnexpected(p + 1, "parse_i64", p + 1)

\* Mutant of parse_i64_digits: the loop is entered without the check that
\* the first byte is a digit.
parse_i64_digits_unchecked(b, q, stop_char, negative) ==
    parse_i64_loop(b, q, stop_char, negative, <<>>)

\* The part of parse_i64 after the optional sign, with the cursor at q.
parse_i64_digits(b, q, stop_char, negative) ==
    Try(peek_char(b, q), LAMBDA c :
        IF ~IsDigit(c.val)
        THEN ErrUnexpected(q, "parse_i64.first", q)
        ELSE parse_i64_loop(b, q, stop_char, negative, <<>>))

parse_i64(b, p, stop_char) ==
    Try(peek_char(b, p), LAMBDA s :
        IF s.val = CH_MINUS
        THEN parse_i64_digits(b, p + 1, stop_char, TRUE)
        ELSE parse_i64_digits(b, p, stop_char, FALSE))

----------------------------------------------------------------------------
(* Decoder primitives that need no visitor.                                *)

decode_int(b, p) ==
    Try(next_char(b, p), LAMBDA c :
        IF c.val # CH_i
        THEN ErrParse("Expected integer", c.pos, "decode_int.tag", c.pos)
        ELSE parse_i64(b, c.pos, CH_e))

\* Mutant of slice_at: the cursor is advanced by len before the range is
\* looked up, so a short buffer leaves the cursor beyond its end.
slice_at_advance_first(b, q, len, end) ==
    IF ~LeDec(end, USIZE_MAX)
    THEN IF overflow_checks
         THEN Panic("decode_bytes.add", q)
         ELSE ErrEof("decode_bytes.slice", q)
    ELSE IF LeDec(end, NatToDec(Len(b)))
    THEN Ok(VBytes(SubSeq(b, q + 1, q + DecToNat(len))), q + DecToNat(len))
    ELSE ErrEof("decode_bytes.slice", IF Len(len) <= 6 THEN q + DecToNat(len) ELSE q)

\* Mutant of slice_at: the range starts at the colon instead of after it.
slice_at_from_colon(b, q, len, end) ==
    IF ~LeDec(end, USIZE_MAX)
    THEN IF overflow_checks
         THEN Panic("decode_bytes.add", q)
         ELSE ErrEof("decode_bytes.slice", q)
    ELSE IF LeDec(end, NatToDec(Len(b)))
    THEN Ok(VBytes(SubSeq(b, q, q + DecToNat(len) - 1)), q + DecToNat(len))
    ELSE ErrEof("decode_bytes.slice", q)

\* self.buf.get(self.pos..self.pos + len): the addition is unchecked, so an
\* overflowing sum panics when overflow checks are on and wraps otherwise;
\* the wrapped end is below pos, so get() returns None.
slice_at(b, q, len, end) ==
    IF ~LeDec(end, USIZE_MAX)
    THEN IF overflow_checks
         THEN Panic("decode_bytes.add", q)
         ELSE ErrEof("decode_bytes.slice", q)
    ELSE IF LeDec(end, NatToDec(Len(b)))
    THEN Ok(VBytes(SubSeq(b, q + 1, q + DecToNat(len))), q + DecToNat(len))
    ELSE ErrEof("decode_bytes.slice", q)

decode_bytes(b, p) ==
    Try(peek_char(b, p), LAMBDA c :
        IF ~IsDigit(c.val)
        THEN ErrParse("Expected byte string", p, "decode_bytes.tag", p)
        ELSE Try(parse_usize(b, p, CH_COLON), LAMBDA l :
                 slice_at(b, l.pos, l.val, AddDec(l.val, l.pos))))

----------------------------------------------------------------------------
(* The earlier decoder of lib.rs.  It has the same fields and the same     *)
(* cursor primitives; its decode_bytes parses the length as an i64 with    *)
(* parse_int_until and converts it to usize.                               *)

RECURSIVE parse_int_until_loop(_, _, _, _, _)
\* loop { match self.next_char()? { .. } }: checked_mul(10) and checked_add(c)
\* fail separately, both with Error::Overflow { pos: self.pos }.
parse_int_until_loop(b, p, stop_char, negative, val) ==
    CASE p >= Len(b) -> ErrEof("peek_char", p)
      [] p < Len(b) /\ IsDigit(b[p + 1])
           /\ checked_mul10_add(val, b[p + 1] - CH_0, I64_MAX) = None
         -> ErrOverflow(p + 1, "parse_int_until", p + 1)
      [] p < Len(b) /\ IsDigit(b[p + 1])
           /\ checked_mul10_add(val, b[p + 1] - CH_0, I64_MAX) # None
         -> parse_int_until_loop(b, p + 1, stop_char, negative,
                                 checked_mul10_add(val, b[p + 1] - CH_0, I64_MAX)[2])
      [] p < Len(b) /\ b[p + 1] = stop_char -> Ok(Negate(val, negative), p + 1)
      [] OTHER -> ErrUnexpected(p + 1, "parse_int_until", p + 1)

\* The part of parse_int_until after the optional sign, with the cursor at q.
parse_int_until_digits(b, q, stop_char, negative) ==
    Try(peek_char(b, q), LAMBDA c :
        IF ~IsDigit(c.val)
        THEN ErrUnexpected(q, "parse_int_until.first", q)
        ELSE parse_int_until_loop(b, q, stop_char, negative, <<>>))

parse_int_until(b, p, stop_char) ==
    Try(peek_char(b, p), LAMBDA s :
        IF s.val = CH_MINUS
        THEN parse_int_until_digits(b, p + 1, stop_char, TRUE)
        ELSE parse_int_until_digits(b, p, stop_char, FALSE))

\* i64 -> usize by try_into: fails on a negative value only (64-bit usize).
try_into_usize(r) ==
    IF r.val[2]
    THEN ErrParse("Required positive length", r.pos, "lib.decode_bytes.try_into", r.pos)
    ELSE Ok(r.val[3], r.pos)

\* self.buf.get(self.pos..).and_then(|buf| buf.get(..len)): no addition.
lib_slice(b, q, len) ==
    IF LeDec(len, NatToDec(Len(b) - q))
    THEN Ok(VBytes(SubSeq(b, q + 1, q + DecToNat(len))), q + DecToNat(len))
    ELSE ErrEof("lib.decode_bytes.slice", q)

lib_decode_bytes(b, p) ==
    Try(peek_char(b, p), LAMBDA c :
        IF ~IsDigit(c.val)
        THEN ErrParse("Expected byte string", p, "lib.decode_bytes.tag", p)
        ELSE Try(parse_int_until(b, p, CH_COLON), LAMBDA v :
             Try(try_into_usize(v), LAMBDA l : lib_slice(b, l.pos, l.val))))

----------------------------------------------------------------------------
(* Target types.  A type is a tagged tuple; its visitor is the TheVisitor  *)
(* its Decode impl builds, so a type also stands for its visitor.          *)

TInt           == <<"i64">>
TBytes         == <<"bytes">>
TVec(T)        == <<"Vec", T>>
TVecDeque(T)   == <<"VecDeque", T>>
THashSet(T)    == <<"HashSet", T>>
TBTreeSet(T)   == <<"BTreeSet", T>>
THashMap(T)    == <<"HashMap", T>>
TBTreeMap(T)   == <<"BTreeMap", T>>
TTuple(ts)     == <<"tuple", ts>>
TArray(n, T)   == <<"array", n, T>>
TFoo           == <<"Foo">>

SeqKinds  == {"Vec", "VecDeque"}
SetKinds  == {"HashSet", "BTreeSet"}
MapKinds  == {"HashMap", "BTreeMap"}

VTuple(s)      == <<"tuple", s>>
VArray(s)      == <<"array", s>>

\* Mutant of ArrayIdx: the index literals counted from one.
ArrayIdx_from_one(n) == [j \in 1..n |-> j]

\* array_impl!(N => [0, 1, ..., N-1]): the index literal of each slot.
ArrayIdx(n) == [j \in 1..n |-> j - 1]

\* $ty::new() and out.$fn(t) of list_impl.
NewColl(kind) == IF kind \in SeqKinds THEN VSeq(<<>>) ELSE VSet({})

Push(out, t) ==
    IF out[1] = "seq" THEN VSeq(Append(out[2], t)) ELSE VSet(out[2] \cup {t})

\* out.insert(k, v) of map_impl: unconditional, replaces an equal key.
MapInsert(out, k, v) ==
    VMap({e \in out[2] : e[1] # k} \cup {<<k, v>>})

RECURSIVE decode(_, _, _)
RECURSIVE list_loop(_, _, _, _)
RECURSIVE map_loop(_, _, _, _)
RECURSIVE tuple_pull(_, _, _, _, _)
RECURSIVE array_pull(_, _, _, _, _)

\* Mutant of next_element: the terminator is consumed by the accessor.
next_element_consuming(T, b, p) ==
    Try(next_char(b, p), LAMBDA c :
        IF c.val = CH_e THEN Ok(None, c.pos)
        ELSE Try(decode(T, b, p), LAMBDA v : Ok(Some(v.val), v.pos)))

\* impl List for &mut BenDecoder
next_element(T, b, p) ==
    Try(peek_char(b, p), LAMBDA c :
        IF c.val = CH_e THEN Ok(None, p)
        ELSE Try(decode(T, b, p), LAMBDA v : Ok(Some(v.val), v.pos)))

\* impl Dict for &mut BenDecoder
next_entry(T, b, p) ==
    Try(peek_char(b, p), LAMBDA c :
        IF c.val = CH_e THEN Ok(None, p)
        ELSE Try(decode_bytes(b, p), LAMBDA key :
             Try(decode(T, b, key.pos), LAMBDA value :
                 Ok(Some(<<key.val[2], value.val>>), value.pos))))

\* list_impl's visit_list: while let Some(t) = list.next_element()? { .. }
list_loop(V, b, p, out) ==
    Try(next_element(V[2], b, p), LAMBDA r :
        IF r.val = None THEN Ok(out, r.pos)
        ELSE list_loop(V, b, r.pos, Push(out, r.val[2])))

\* map_impl's visit_dict: while let Some((k, v)) = dict.next_entry()? { .. }
map_loop(V, b, p, out) ==
    Try(next_entry(V[2], b, p), LAMBDA r :
        IF r.val = None THEN Ok(out, r.pos)
        ELSE map_loop(V, b, r.pos, MapInsert(out, r.val[2][1], r.val[2][2])))

\* tuple_impl's visit_list: one next_element::<Ti>() per component, in order.
tuple_pull(ts, i, acc, b, p) ==
    IF i > Len(ts) THEN Ok(VTuple(acc), p)
    ELSE Try(next_element(ts[i], b, p), LAMBDA r :
             IF r.val = None THEN ErrEof("tuple_impl.visit_list", r.pos)
             ELSE tuple_pull(ts, i + 1, Append(acc, r.val[2]), b, r.pos))

\* array_impl's visit_list: one next_element() per slot, in order.
array_pull(V, i, acc, b, p) ==
    IF i > V[2] THEN Ok(VArray(acc), p)
    ELSE Try(next_element(V[3], b, p), LAMBDA r :
             IF r.val = None
             THEN ErrLength(V[2], ArrayIdx(V[2])[i], "array_impl.visit_list", r.pos)
             ELSE array_pull(V, i + 1, Append(acc, r.val[2]), b, r.pos))

\* FooVisitor::visit_dict of main.rs.
foo_visit_dict(b, p) ==
    Try(next_entry(TBytes, b, p), LAMBDA e1 :
        IF e1.val # None /\ e1.val[2][1] = <<CH_a>>
        THEN Try(next_entry(TInt, b, e1.pos), LAMBDA e2 :
                 IF e2.val # None /\ e2.val[2][1] = <<CH_b>>
                 THEN Ok(VFoo(e1.val[2][2], e2.val[2][2]), e2.pos)
                 ELSE ErrEof("FooVisitor.visit_dict", e2.pos))
        ELSE ErrEof("FooVisitor.visit_dict", e1.pos))

\* Visitor::visit_list: the override of the visitor, or the trait default.
visit_list(V, b, p) ==
    IF V[1] \in SeqKinds \cup SetKinds THEN list_loop(V, b, p, NewColl(V[1]))
    ELSE IF V[1] = "tuple" THEN tuple_pull(V[2], 1, <<>>, b, p)
    ELSE IF V[1] = "array" THEN array_pull(V, 1, <<>>, b, p)
    ELSE ErrType("List not expected", "Visitor.visit_list", p)

\* Visitor::visit_dict: the override of the visitor, or the trait default.
visit_dict(V, b, p) ==
    IF V[1] \in MapKinds THEN map_loop(V, b, p, VMap({}))
    ELSE IF V[1] = "Foo" THEN foo_visit_dict(b, p)
    ELSE ErrType("Dict not expected", "Visitor.visit_dict", p)

\* Mutant of terminator: the byte after the visitor's last element is
\* consumed without being compared with `e`.
terminator_unchecked(b, out, site) ==
    Try(next_char(b, out.pos), LAMBDA t : Ok(out.val, t.pos))

\* The terminator check after the visitor has returned out.
terminator(b, out, site) ==
    Try(next_char(b, out.pos), LAMBDA t :
        IF t.val = CH_e THEN Ok(out.val, t.pos)
        ELSE ErrUnexpected(t.pos, site, t.pos))

decode_dict(V, b, p) ==
    Try(next_char(b, p), LAMBDA c :
        IF c.val # CH_d
        THEN ErrParse("Expected Dict", c.pos, "decode_dict.tag", c.pos)
        ELSE Try(visit_dict(V, b, c.pos), LAMBDA out :
                 terminator(b, out, "decode_dict.terminator")))

\* Mutant of decode_list: the tag compared is the one of decode_dict.
decode_list_dict_tag(V, b, p) ==
    Try(next_char(b, p), LAMBDA c :
        IF c.val # CH_d
        THEN ErrParse("Expected List", c.pos, "decode_list.tag", c.pos)
        ELSE Try(visit_list(V, b, c.pos), LAMBDA out :
                 terminator(b, out, "decode_list.terminator")))

decode_list(V, b, p) ==
    Try(next_char(b, p), LAMBDA c :
        IF c.val # CH_l
        THEN ErrParse("Expected List", c.pos, "decode_list.tag", c.pos)
        ELSE Try(visit_list(V, b, c.pos), LAMBDA out :
                 terminator(b, out, "decode_list.terminator")))

\* Decode::decode of each built-in adapter (impls.rs) and of Foo (main.rs):
\* each delegates to exactly one Decoder primitive.
decode(T, b, p) ==
    IF T[1] = "i64" THEN decode_int(b, p)
    ELSE IF T[1] = "bytes" THEN decode_bytes(b, p)
    ELSE IF T[1] = "Foo" THEN decode_dict(T, b, p)
    ELSE decode_list(T, b, p)

\* pub fn parse: a fresh decoder at offset 0.
parse(T, b) == decode(T, b, 0)

----------------------------------------------------------------------------
(* The encoder of the format, used only to build inputs: the grammar of    *)
(* spec section 4.2, written independently of the decoder.                 *)

SeqsUpTo(S, n) == UNION {[1..k -> S] : k \in 0..n}

RECURSIVE Concat(_)
Concat(ss) == IF ss = <<>> THEN <<>> ELSE Head(ss) \o Concat(Tail(ss))

Prefixes(s) == {SubSeq(s, 1, k) : k \in 0..Len(s)}

ProperPrefixes(s) == {SubSeq(s, 1, k) : k \in 0..(Len(s) - 1)}

\* The decimal text of a magnitude.
DigitText(mag) ==
    IF mag = <<>> THEN <<CH_0>> ELSE [j \in 1..Len(mag) |-> CH_0 + mag[j]]

\* i<N>e for a sign and a magnitude.
EncIntText(neg, mag) ==
    <<CH_i>> \o (IF neg THEN <<CH_MINUS>> ELSE <<>>) \o DigitText(mag) \o <<CH_e>>

EncInt(v) == EncIntText(v[2], v[3])

\* <len>:<bytes>
EncBytes(s) == DigitText(NatToDec(Len(s))) \o <<CH_COLON>> \o s

\* l element* e, from the encodings of the elements.
EncList(es) == <<CH_l>> \o Concat(es) \o <<CH_e>>

\* d (key value)* e, from <<key bytes, value encoding>> entries.
EncDict(kvs) ==
    <<CH_d>> \o Concat([j \in 1..Len(kvs) |-> EncBytes(kvs[j][1]) \o kvs[j][2]])
             \o <<CH_e>>

----------------------------------------------------------------------------
(* The input universe.                                                     *)

I64_MIN_MAG == AddDec(I64_MAX, 1)          \* 2^63
USIZE_OVER  == AddDec(USIZE_MAX, 1)        \* 2^64

SmallInts == {VInt(FALSE, <<1>>), VInt(FALSE, <<2>>)}

\* Values of i64, with both ends of the range.
IntVals ==
    SmallInts \cup
    { VInt(FALSE, <<>>), VInt(TRUE, <<3>>), VInt(FALSE, <<4, 2>>),
      VInt(FALSE, I64_MAX), VInt(TRUE, I64_MAX), VInt(TRUE, I64_MIN_MAG) }

\* Integer texts whose digit run does not fit an i64.
OverflowMags ==
    { I64_MIN_MAG, Append(I64_MAX, 0), Append(I64_MIN_MAG, 1), USIZE_MAX,
      <<3,5,1,8,4,3,7,2,0,8,8,8,3,2,0,0,0,0,0,0>> }

OverflowIntTexts == {EncIntText(n, m) : n \in BOOLEAN, m \in OverflowMags \ {I64_MIN_MAG}}
                    \cup {EncIntText(FALSE, I64_MIN_MAG)}

\* Integer texts that are not canonical or not integers at all.
OddIntTexts ==
    { <<CH_i, CH_MINUS, CH_0, CH_e>>, <<CH_i, CH_0, CH_1, CH_e>>,
      <<CH_i, CH_e>>, <<CH_i, CH_MINUS, CH_e>>,
      <<CH_i, CH_MINUS, CH_MINUS, CH_1, CH_e>>, <<CH_i, CH_1, CH_a, CH_e>> }

ByteVals == {<<>>, <<CH_a>>, <<CH_a, CH_b>>, <<CH_e, CH_1>>}

\* Length prefixes at the limits of usize and i64, and with leading zeros.
LengthTexts ==
    { DigitText(USIZE_MAX) \o <<CH_COLON>>,
      DigitText(USIZE_MAX) \o <<CH_COLON, CH_a>>,
      DigitText(USIZE_OVER) \o <<CH_COLON>>,
      DigitText(I64_MAX) \o <<CH_COLON, CH_a>>,
      DigitText(I64_MIN_MAG) \o <<CH_COLON, CH_a>>,
      <<CH_0, CH_0, CH_COLON>>, <<CH_0, CH_1, CH_COLON, CH_a>>,
      <<CH_2, CH_COLON, CH_a>>, <<CH_1, CH_a>>, <<CH_1, CH_MINUS, CH_COLON>> }

\* Elements and dictionary values of the generated containers.
ElemVals == SmallInts \cup {VBytes(<<CH_a>>)}

\* The encoding of an integer or byte-string value.
Enc(v) == IF v[1] = "int" THEN EncInt(v) ELSE EncBytes(v[2])

EncAll(vs) == [j \in 1..Len(vs) |-> Enc(vs[j])]

\* A list / a dictionary from element values / <<key, value>> entries.
EncListV(vs) == EncList(EncAll(vs))

EncDictV(kvs) == EncDict([j \in 1..Len(kvs) |-> <<kvs[j][1], Enc(kvs[j][2])>>])

Keys == {<<CH_a>>, <<CH_b>>}

ListVals == SeqsUpTo(ElemVals, MaxElems)

DictVals == SeqsUpTo(Keys \X ElemVals, MaxEntries)

ListTexts == {EncListV(vs) : vs \in ListVals}

NestedListTexts ==
    {EncList(ls) :
        ls \in SeqsUpTo({EncListV(vs) : vs \in SeqsUpTo({VInt(FALSE, <<1>>)}, MaxInner)},
                        MaxNested)}

DictTexts == {EncDictV(kvs) : kvs \in DictVals}

\* Lists of integers holding an end of the i64 range.
EdgeIntLists ==
    { <<VInt(TRUE, I64_MIN_MAG)>>, <<VInt(FALSE, <<1>>), VInt(FALSE, I64_MAX)>> }

EdgeListTexts == {EncListV(vs) : vs \in EdgeIntLists}

WellFormed ==
    {EncInt(v) : v \in IntVals} \cup {EncBytes(s) : s \in ByteVals}
    \cup ListTexts \cup NestedListTexts \cup DictTexts \cup EdgeListTexts

Suffixes == {<<CH_e>>, <<CH_1>>, <<CH_i, CH_1, CH_e>>, <<CH_1, CH_COLON, CH_a>>}

FuzzBytes == {CH_i, CH_l, CH_d, CH_e, CH_1, CH_COLON, CH_MINUS}

Inputs ==
    SeqsUpTo(FuzzBytes, MaxFuzzLen)
    \cup UNION {Prefixes(e) : e \in WellFormed}
    \cup {e \o x : e \in WellFormed, x \in Suffixes}
    \cup OverflowIntTexts \cup OddIntTexts \cup LengthTexts

----------------------------------------------------------------------------
(* The calls.                                                              *)

IntTuple(n) == TTuple([j \in 1..n |-> TInt])

\* Target types of parse::<T>().
ParseTypes ==
    { TInt, TBytes, TVec(TInt), TVec(TBytes), TVecDeque(TInt), THashSet(TInt),
      TBTreeSet(TBytes), TVec(TVec(TInt)), TBTreeMap(TInt), TBTreeMap(TBytes),
      THashMap(TInt), TFoo, TTuple(<<>>), TTuple(<<TInt, TBytes>>) }
    \cup {IntTuple(n) : n \in 2..MaxArity}
    \cup {TArray(n, T) : n \in 1..MaxArity, T \in {TInt, TBytes}}

\* Visitors handed to decode_list / decode_dict on a live decoder.
VisitorTypes == {TVec(TInt), TArray(1, TBytes), TBTreeMap(TInt), TFoo}

\* Element types pulled through an accessor on a live decoder.
PullTypes == {TInt, TBytes}

Init ==
    /\ buf \in Inputs
    /\ pos = 0
    /\ overflow_checks \in BOOLEAN
    /\ op = "new"
    /\ arg = <<>>
    /\ pre = 0
    /\ res = Ok(NoVal, 0)

\* The decoder is live: parse() has not consumed it and no call has failed.
Live == op # "parse" /\ IsOk(res)

Call(name, T, r) ==
    /\ op' = name
    /\ arg' = T
    /\ pre' = pos
    /\ res' = r
    /\ pos' = r.pos
    /\ UNCHANGED <<buf, overflow_checks>>

\* parse::<T>(buf): lib.rs, a fresh decoder over the caller's buffer.
Parse ==
    /\ op = "new"
    /\ \E T \in ParseTypes : Call("parse", T, parse(T, buf))

DecodeInt == Live /\ Call("decode_int", <<>>, decode_int(buf, pos))

DecodeBytes == Live /\ Call("decode_bytes", <<>>, decode_bytes(buf, pos))

DecodeList ==
    /\ Live
    /\ \E V \in VisitorTypes : Call("decode_list", V, decode_list(V, buf, pos))

DecodeDict ==
    /\ Live
    /\ \E V \in VisitorTypes : Call("decode_dict", V, decode_dict(V, buf, pos))

NextElement ==
    /\ Live
    /\ \E T \in PullTypes : Call("next_element", T, next_element(T, buf, pos))

NextEntry ==
    /\ Live
    /\ \E T \in PullTypes : Call("next_entry", T, next_entry(T, buf, pos))

\* decode_bytes of the lib.rs decoder, on the same buffer and cursor.
LibDecodeBytes == Live /\ Call("lib_decode_bytes", <<>>, lib_decode_bytes(buf, pos))

Next ==
    \/ Parse
    \/ DecodeInt
    \/ DecodeBytes
    \/ DecodeList
    \/ DecodeDict
    \/ NextElement
    \/ NextEntry
    \/ LibDecodeBytes

Spec == Init /\ [][Next]_vars

----------------------------------------------------------------------------
(* Properties.                                                             *)

\* The map the entries kvs denote when a later entry replaces an earlier
\* one with the same key.
LastWins(kvs) ==
    {<<kvs[j][1], kvs[j][2]>> :
        j \in {i \in 1..Len(kvs) : \A k \in (i + 1)..Len(kvs) : kvs[k][1] # kvs[i][1]}}

\* The target type that a generated element value decodes as.
TypeOf(v) == IF v[1] = "int" THEN TInt ELSE TBytes

\* C1: parse of a well-formed dictionary d (key value)* e as a built-in
\* byte-string-keyed map succeeds and yields exactly the entries of the
\* input, the last occurrence of a repeated key winning.
C1_MapDecodesDict ==
    \A kvs \in DictVals : \A M \in MapKinds : \A T \in {TInt, TBytes} :
        ( /\ op = "parse"
          /\ arg = <<M, T>>
          /\ buf = EncDictV(kvs)
          /\ \A j \in 1..Len(kvs) : TypeOf(kvs[j][2]) = T )
        => (res.st = "Ok" /\ res.val = VMap(LastWins(kvs)))

\* C2: decode_int on i<N>e returns exactly N for every N of the signed
\* 64-bit range, both ends included.
C2_IntRoundTrip ==
    \A v \in IntVals :
        (op = "decode_int" /\ pre = 0 /\ buf = EncInt(v))
        => res = Ok(v, Len(buf))

\* The 1-based index of the first digit of the normalised magnitude m at
\* which the value read so far no longer fits an i64.
FirstOverflowDigit(m) ==
    CHOOSE k \in 1..Len(m) :
        /\ ~LeDec(SubSeq(m, 1, k), I64_MAX)
        /\ \A j \in 1..(k - 1) : LeDec(SubSeq(m, 1, j), I64_MAX)

\* The buffer offset of that digit in i<N>e.
OverflowOffset(neg, m) == (IF neg THEN 2 ELSE 1) + FirstOverflowDigit(m) - 1

\* C3: a digit run beyond the i64 range makes decode_int fail with
\* Error::Overflow whose pos is the buffer offset of the first digit whose
\* accumulation overflows.
C3_OverflowAtDigit ==
    \A neg \in BOOLEAN : \A m \in OverflowMags :
        ( /\ op = "decode_int"
          /\ pre = 0
          /\ buf = EncIntText(neg, m)
          /\ ~(neg /\ m = I64_MIN_MAG) )
        => (res.st = "Overflow" /\ res.epos = OverflowOffset(neg, m))

\* The byte b is the tag that the primitive call expects at the cursor.
TagOk(call, b) ==
    IF call = "decode_int" THEN b = CH_i
    ELSE IF call = "decode_bytes" THEN IsDigit(b)
    ELSE IF call = "decode_list" THEN b = CH_l
    ELSE b = CH_d

Primitives == {"decode_int", "decode_bytes", "decode_list", "decode_dict"}

\* The last call was a primitive that met a byte other than its tag.
TagMismatch ==
    /\ op \in Primitives
    /\ pre < Len(buf)
    /\ ~TagOk(op, buf[pre + 1])

\* C4: a tag-mismatch failure of decode_int, decode_bytes, decode_list or
\* decode_dict leaves the cursor where it was before the call.
C4_TagMismatchKeepsCursor == TagMismatch => (~IsOk(res) /\ pos = pre)

\* Target types whose visitor accepts only lists / only dicts.
ListOnly(T) == T[1] \in SeqKinds \cup SetKinds \cup {"tuple", "array"}

DictOnly(T) == T[1] \in MapKinds \cup {"Foo"}

Entered ==
    IF op \in Primitives THEN op
    ELSE IF op # "parse" THEN "none"
    ELSE IF arg = TInt THEN "decode_int"
    ELSE IF arg = TBytes THEN "decode_bytes"
    ELSE IF arg = TFoo THEN "decode_dict"
    ELSE "decode_list"

Typed(vss, ts) ==
    {vs \in vss : Len(vs) = Len(ts) /\ \A j \in 1..Len(vs) : TypeOf(vs[j]) = ts[j]}

\* Element sequences of any length whose elements all have type T.
Homogeneous(vss, T) == {vs \in vss : \A j \in 1..Len(vs) : TypeOf(vs[j]) = T}

\* The valid encodings, within the input universe, of the values of T.
ValidEncs(T) ==
    IF T = TInt THEN {EncInt(v) : v \in IntVals}
    ELSE IF T = TBytes THEN {EncBytes(x) : x \in ByteVals}
    ELSE IF T[1] \in SeqKinds \cup SetKinds
    THEN IF T[2] \in {TInt, TBytes}
         THEN {EncListV(vs) : vs \in Homogeneous(ListVals, T[2])}
         ELSE NestedListTexts
    ELSE IF T[1] = "tuple" THEN {EncListV(vs) : vs \in Typed(ListVals, T[2])}
    ELSE IF T[1] = "array"
    THEN {EncListV(vs) : vs \in Typed(ListVals, [j \in 1..T[2] |-> T[3]])}
    ELSE IF T[1] \in MapKinds
    THEN {EncDictV(kvs) :
            kvs \in {w \in DictVals : \A j \in 1..Len(w) : TypeOf(w[j][2]) = T[2]}}
    ELSE {EncDictV(<< <<(<<CH_a>>), VBytes(<<CH_a>>)>>, <<(<<CH_b>>), v>> >>) :
            v \in SmallInts}

\* C6: parse on a proper prefix of a valid encoding of a value of the target
\* type fails with Error::Eof, never with success or another error kind.
C6_TruncationIsEof ==
    op = "parse" =>
        \A E \in ValidEncs(arg) : buf \in ProperPrefixes(E) => res.st = "Eof"

\* C7: a tuple of arity N decoded from a well-formed list of k < N elements
\* fails with Error::Length{expected: N, actual: k}.
C7_ShortTupleIsLength ==
    (op = "parse" /\ arg[1] = "tuple") =>
        \A vs \in ListVals :
            ( /\ Len(vs) < Len(arg[2])
              /\ buf = EncListV(vs)
              /\ \A j \in 1..Len(vs) : TypeOf(vs[j]) = arg[2][j] )
            => (res.st = "Length" /\ res.expected = Len(arg[2]) /\ res.actual = Len(vs))

\* C8: an array of length N decoded from a well-formed list of k < N
\* elements fails with Error::Length{expected: N, actual: k}.
C8_ShortArrayIsLength ==
    (op = "parse" /\ arg[1] = "array" /\ buf \in ListTexts) =>
        \A vs \in Homogeneous(ListVals, arg[3]) :
            (Len(vs) < arg[2] /\ buf = EncListV(vs))
            => (res.st = "Length" /\ res.expected = arg[2] /\ res.actual = Len(vs))

C8_Witness ==
    /\ op = "parse"
    /\ arg = TArray(3, TInt)
    /\ buf = EncListV(<<VInt(FALSE, <<1>>), VInt(FALSE, <<2>>)>>)
    /\ res.st = "Length"
    /\ res.actual = 2

\* The number and the types of the elements a fixed-size target pulls.
Slots(T) == IF T[1] = "tuple" THEN T[2] ELSE [j \in 1..T[2] |-> T[3]]

\* C9: an array or tuple of N elements decoded from a well-formed list of
\* more than N elements fails with Error::Unexpected raised by the terminator
\* check of decode_list, after the visitor has pulled exactly N elements: the
\* cursor has passed `l`, the first N elements and the one byte the check read.
C9_LongListFailsAtTerminator ==
    (op = "parse" /\ arg[1] \in {"tuple", "array"} /\ buf \in ListTexts) =>
        \A vs \in ListVals :
            ( /\ Len(vs) > Len(Slots(arg))
              /\ buf = EncListV(vs)
              /\ \A j \in 1..Len(Slots(arg)) : TypeOf(vs[j]) = Slots(arg)[j] )
            => LET n == Len(Slots(arg))
                   after == 1 + Len(Concat(EncAll(SubSeq(vs, 1, n))))
               IN  /\ res.st = "Unexpected"
                   /\ res.site = "decode_list.terminator"
                   /\ res.pos = after + 1
                   /\ res.epos = after + 1
                   /\ buf[after + 1] # CH_e

C9_Witness ==
    /\ op = "parse"
    /\ arg = TTuple(<<TInt, TBytes>>)
    /\ buf = EncListV(<<VInt(FALSE, <<1>>), VBytes(<<CH_a>>), VInt(FALSE, <<2>>)>>)
    /\ res.st = "Unexpected"
    /\ res.site = "decode_list.terminator"

\* C10: no input makes the decoder panic: every arithmetic step on lengths
\* and offsets is guarded, so the outcome of a call is a value or an Error.
C10_NeverPanics == res.st # "panic"

\* The calls that read the byte at the cursor before anything else.
Readers == Primitives \cup {"next_element", "next_entry", "parse"}

\* C11: the cursor offset stays within 0..Len(buf) in every reachable state,
\* no call moves it backwards, a call made with the cursor at the end of the
\* buffer returns Error::Eof, and the Eof of peek_char is raised only there.
C11_CursorInBounds ==
    /\ 0 <= pre
    /\ pre <= pos
    /\ pos <= Len(buf)
    /\ res.pos = pos
    /\ (op \in Readers /\ pre = Len(buf)) => (res.st = "Eof" /\ pos = pre)
    /\ res.site = "peek_char" => (res.st = "Eof" /\ pos = Len(buf))

C11_Witness ==
    /\ op = "decode_int"
    /\ buf = <<CH_i, CH_1>>
    /\ pre = 0
    /\ res.st = "Eof"
    /\ res.site = "peek_char"
    /\ pos = 2

\* The offset of the first byte at or after p that is not a digit (the
\* buffer length when the digits run to the end).
RECURSIVE DigitRunEnd(_, _)
DigitRunEnd(b, p) ==
    IF p < Len(b) /\ IsDigit(b[p + 1]) THEN DigitRunEnd(b, p + 1) ELSE p

RECURSIVE StripZeros(_)
StripZeros(ds) == IF ds # <<>> /\ ds[1] = 0 THEN StripZeros(Tail(ds)) ELSE ds

\* The number written by the digits of b at offsets from..to-1.
RunValue(b, from, to) == StripZeros([j \in 1..(to - from) |-> b[from + j] - CH_0])

\* C12: decode_bytes on <len>:<bytes> at the cursor, with at least len bytes
\* after the colon, returns exactly the len bytes after the colon and leaves
\* the cursor just past them; len = 0 and leading zeros included.
C12_BytesExact ==
    op = "decode_bytes" =>
        LET c == DigitRunEnd(buf, pre)
        IN  ( /\ c > pre
              /\ c < Len(buf)
              /\ buf[c + 1] = CH_COLON
              /\ LeDec(RunValue(buf, pre, c), NatToDec(Len(buf) - (c + 1))) )
            => LET n == DecToNat(RunValue(buf, pre, c))
               IN  res = Ok(VBytes(SubSeq(buf, c + 2, c + 1 + n)), c + 1 + n)

C12_Witness ==
    /\ op = "decode_bytes"
    /\ buf = <<CH_i, CH_1, CH_e, CH_1, CH_COLON, CH_a>>
    /\ pre = 3
    /\ res = Ok(VBytes(<<CH_a>>), 6)

\* The lists of the universe whose elements are all values of type T, as
\* sequences of element values.
ListsOf(T) ==
    IF T = TInt THEN Homogeneous(ListVals, TInt) \cup EdgeIntLists
    ELSE Homogeneous(ListVals, TBytes)

\* C13: a well-formed list decoded as Vec or VecDeque yields exactly its
\* elements in document order and leaves the cursor just past the final `e`.
C13_ListInOrder ==
    (op = "parse" /\ arg[1] \in SeqKinds /\ arg[2] \in {TInt, TBytes}) =>
        \A vs \in ListsOf(arg[2]) :
            buf = EncListV(vs) => res = Ok(VSeq(vs), Len(buf))

\* C14: for a valid encoding E of a value of the target type and any bytes S
\* after it, parse on E \o S succeeds with the value parse yields on E and
\* the cursor stops at Len(E), whatever S is.
C14_TrailingBytesUnread ==
    op = "parse" =>
        \A E \in ValidEncs(arg) : \A S \in Suffixes :
            buf = E \o S =>
                /\ IsOk(res)
                /\ res.val = parse(arg, E).val
                /\ pos = Len(E)

Accessors == {"next_element", "next_entry"}

\* The last call was an accessor call that reported the end of the container.
EndReported == op \in Accessors /\ IsOk(res) /\ res.val = None

\* The last call left the cursor on an `e` that it did not consume.
OnTerminator == pos < Len(buf) /\ buf[pos + 1] = CH_e

\* The state part of C15.
C15_TerminatorLeft ==
    /\ (op \in Accessors /\ pre < Len(buf) /\ buf[pre + 1] = CH_e)
        => (res = Ok(None, pre) /\ pos = pre)
    /\ EndReported => OnTerminator
    /\ (Entered \in {"decode_list", "decode_dict"} /\ IsOk(res))
        => (pos >= pre + 2 /\ buf[pos] = CH_e)
    /\ (Entered = "decode_list" /\ IsOk(res) /\ pre = 0)
        => \A E \in ListTexts : buf = E \o <<CH_e>> => pos = Len(E)
    /\ res.site \in {"array_impl.visit_list", "tuple_impl.visit_list"}
        => OnTerminator
    /\ res.site \in {"Visitor.visit_list", "Visitor.visit_dict"}
        => pos = pre + 1

\* C15: with `e` at the cursor, next_element and next_entry report the end
\* of the container without moving the cursor, and go on doing so on every
\* further call; the terminating `e` is consumed once, by decode_list or
\* decode_dict, and only after the visitor has returned successfully.
C15_TerminatorProtocol ==
    /\ []C15_TerminatorLeft
    /\ [][(EndReported /\ op' \in Accessors)
            => (res' = Ok(None, pos) /\ pos' = pos)]_vars

C15_Witness ==
    /\ op = "next_element"
    /\ buf = <<CH_i, CH_1, CH_e, CH_e>>
    /\ pre = 3
    /\ res = Ok(None, 3)
    /\ pos = 3

\* The byte at offset q of the buffer exists and is not a digit.
NonDigitAt(q) == q < Len(buf) /\ ~IsDigit(buf[q + 1])

\* C16: decode_int on `i` followed by a byte that is neither a digit nor
\* `-`, or on `i-` followed by a byte that is not a digit, fails with
\* Error::Unexpected and returns no value.
C16_NoDigitsIsUnexpected ==
    ( /\ op = "decode_int"
      /\ pre < Len(buf)
      /\ buf[pre + 1] = CH_i
      /\ \/ (NonDigitAt(pre + 1) /\ buf[pre + 2] # CH_MINUS)
         \/ (NonDigitAt(pre + 1) /\ buf[pre + 2] = CH_MINUS /\ NonDigitAt(pre + 2)) )
    => res.st = "Unexpected"

C16_Witness ==
    /\ op = "decode_int"
    /\ buf = <<CH_i, CH_MINUS, CH_MINUS, CH_1, CH_e>>
    /\ pre = 0
    /\ res.st = "Unexpected"

\* The offset at which the digit run of the integer at the cursor starts:
\* after the `i` and the optional `-`.
IntDigitsStart ==
    IF pre + 1 < Len(buf) /\ buf[pre + 2] = CH_MINUS THEN pre + 2 ELSE pre + 1

\* C17: a failure with Error::Parse or Error::Unexpected carries the buffer
\* offset of the byte that failed to match: the tag byte of a tag mismatch,
\* the byte that ends the digit run of decode_int and decode_bytes, and the
\* byte found where decode_list expects the terminator.
C17_ErrorPosIsOffendingByte ==
    /\ (TagMismatch /\ res.st = "Parse") => res.epos = pre
    /\ (op = "decode_int" /\ ~TagMismatch /\ res.st = "Unexpected")
        => res.epos = DigitRunEnd(buf, IntDigitsStart)
    /\ (op = "decode_bytes" /\ res.st = "Unexpected")
        => res.epos = DigitRunEnd(buf, pre)
    /\ (op = "parse" /\ arg[1] \in {"tuple", "array"} /\ res.st = "Unexpected")
        => \A vs \in ListVals :
            ( /\ Len(vs) > Len(Slots(arg))
              /\ buf = EncListV(vs)
              /\ \A j \in 1..Len(Slots(arg)) : TypeOf(vs[j]) = Slots(arg)[j] )
            => res.epos = 1 + Len(Concat(EncAll(SubSeq(vs, 1, Len(Slots(arg))))))

\* Two outcomes are the same result: the same value, or the same error kind
\* with the same position, and the same cursor offset afterwards.
SameOutcome(r1, r2) ==
    /\ r1.st = r2.st
    /\ r1.val = r2.val
    /\ r1.epos = r2.epos
    /\ r1.pos = r2.pos

\* C18: on every buffer and cursor, decode_bytes of lib.rs and decode_bytes
\* of parse.rs return the same outcome and leave the cursor at the same
\* offset.
C18_VersionsAgreeOnBytes ==
    op = "lib_decode_bytes" => SameOutcome(res, decode_bytes(buf, pre))

====
